---- MODULE Spec2Model ----
(***************************************************************************)
(* Model of the F1 performance attribution pipeline                        *)
(* (src/master_analysis.py): the three extractors get_top_speeds,          *)
(* get_start_performance and get_stint_performance, the per-race join in   *)
(* main() and the season loop that accumulates and saves the master table. *)
(*                                                                         *)
(* Data frames are modelled by their column set and their rows.  A cell    *)
(* of a metric column is a tuple: <<>> is NaN (null), <<n, d>> the         *)
(* rational n/d, <<"std", n, d>> the square root of n/d.                   *)
(***************************************************************************)
EXTENDS Integers, Sequences, FiniteSets, TLC

\* ------------------------------------------------------------------------
\* Bounds of the model
\* ------------------------------------------------------------------------
\* how many entries of YEARS_TO_ANALYZE a run of the model walks through
NumYears == 2
\* longest event schedule the provider returns for one season
MaxEvents == 3
\* most laps one (driver, stint) segment holds
MaxLaps == 3

\* ------------------------------------------------------------------------
\* Program constants
\* ------------------------------------------------------------------------
\* len(...) < 3: fewest laps a stint needs
MinLaps == 3
\* mean() + 5: the outlier margin in seconds
OutlierMargin == 5

cache_dir == "./fastf1_cache"
output_file == "season_2021-2025_analysis.csv"
AllYears == <<2025, 2024, 2023, 2022, 2021>>
YEARS_TO_ANALYZE == SubSeq(AllYears, 1, IF NumYears < Len(AllYears) THEN NumYears ELSE Len(AllYears))

\* ------------------------------------------------------------------------
\* Arithmetic helpers (numpy / pandas reductions over integers, exactly)
\* ------------------------------------------------------------------------
NaN == <<>>

Abs(x) == IF x < 0 THEN -x ELSE x

RECURSIVE GCD(_, _)
GCD(a, b) == IF b = 0 THEN a ELSE GCD(b, a % b)

\* the rational n/d in lowest terms with a positive denominator
Rat(n, d) ==
    LET g == GCD(Abs(n), Abs(d))
        s == IF d < 0 THEN -1 ELSE 1
    IN  <<(s * n) \div g, (s * d) \div g>>

RatAdd(p, q) == Rat(p[1] * q[2] + q[1] * p[2], p[2] * q[2])

RECURSIVE SumSeq(_)
SumSeq(s) == IF s = <<>> THEN 0 ELSE Head(s) + SumSeq(Tail(s))

RECURSIVE RatSum(_)
RatSum(s) == IF s = <<>> THEN <<0, 1>> ELSE RatAdd(Head(s), RatSum(Tail(s)))


\* the values of a sequence, first occurrence first (Series.unique())
RECURSIVE Unique(_)
Unique(s) ==
    IF s = <<>> THEN <<>>
    ELSE LET h == Head(s)
             NotHead(x) == x # h
         IN  <<h>> \o Unique(SelectSeq(Tail(s), NotHead))

Range(s) == {s[i] : i \in 1..Len(s)}

\* the rows of a sequence of row lists, one list after the other
RECURSIVE Flatten(_)
Flatten(qs) == IF qs = <<>> THEN <<>> ELSE Head(qs) \o Flatten(Tail(qs))

Column(rows, c) == [i \in 1..Len(rows) |-> rows[i][c]]

RECURSIVE MaxOfSet(_)
MaxOfSet(S) ==
    LET x == CHOOSE y \in S : TRUE
    IN  IF S = {x} THEN x
        ELSE LET m == MaxOfSet(S \ {x}) IN IF x > m THEN x ELSE m

RECURSIVE MinOfSet(_)
MinOfSet(S) ==
    LET x == CHOOSE y \in S : TRUE
    IN  IF S = {x} THEN x
        ELSE LET m == MinOfSet(S \ {x}) IN IF x < m THEN x ELSE m

\* ------------------------------------------------------------------------
\* Data frames
\* ------------------------------------------------------------------------
\* pd.DataFrame(): no columns, no rows
EmptyFrame == [cols |-> {}, map |-> <<>>]

\* a frame indexed by driver: the column set and one row per index value,
\* every row holding a cell for each column
IndexedFrame(cols, map) ==
    [cols |-> cols, map |-> [k \in DOMAIN map |-> [c \in cols |-> map[k][c]]]]

FrameKeys(f) == DOMAIN f.map

\* ------------------------------------------------------------------------
\* get_top_speeds
\* ------------------------------------------------------------------------
\* laps: [cols |-> the table's columns, rows |-> the lap records in order]
DriversOf(laps) == Unique(Column(laps.rows, "Driver"))

pick_drivers(laps, driver) ==
    LET IsDriver(r) == r.Driver = driver IN SelectSeq(laps.rows, IsDriver)

\* groupby('Driver')['SpeedST'].max() as a one-column frame; a missing
\* column raises inside the try and the function returns an empty frame
get_top_speeds(laps) ==
    IF ~({"Driver", "SpeedST"} \subseteq laps.cols) THEN EmptyFrame
    ELSE LET Top(d, c) == <<MaxOfSet(Range(Column(pick_drivers(laps, d), "SpeedST"))), 1>>
         IN  IndexedFrame({"TopSpeedST"},
                          [d \in Range(DriversOf(laps)) |->
                              [c \in {"TopSpeedST"} |-> Top(d, c)]])

\* ------------------------------------------------------------------------
\* get_start_performance
\* ------------------------------------------------------------------------
\* session.laps.pick_laps(1)
pick_laps(laps, n) ==
    LET IsLap(r) == r.LapNumber = n IN SelectSeq(laps.rows, IsLap)

\* StartAnalysis without the GridPosition > 0 filter
StartAnalysisAnyGrid(session) ==
    LET lap_1 == pick_laps(session.laps, 1)
        Merged(g) == \E i \in 1..Len(lap_1) : lap_1[i].Driver = g.Abbreviation
    IN  SelectSeq(session.results.rows, Merged)

\* the inner merge of the grid rows with the lap-1 rows on
\* Abbreviation = Driver, then the GridPosition > 0 filter
StartAnalysis(session) ==
    LET lap_1 == pick_laps(session.laps, 1)
        Merged(g) == \E i \in 1..Len(lap_1) : lap_1[i].Driver = g.Abbreviation
        Valid(g) == Merged(g) /\ g.GridPosition > 0
    IN  SelectSeq(session.results.rows, Valid)

get_start_performance(session) ==
    IF ~({"Abbreviation", "GridPosition", "TeamName"} \subseteq session.results.cols)
       \/ ~({"LapNumber", "Driver", "Position"} \subseteq session.laps.cols)
    THEN EmptyFrame
    ELSE LET start_analysis == StartAnalysis(session)
             lap_1 == pick_laps(session.laps, 1)
             Lap1Pos(d) == lap_1[CHOOSE i \in 1..Len(lap_1) : lap_1[i].Driver = d].Position
             Grid(d) ==
                 start_analysis[CHOOSE i \in 1..Len(start_analysis) :
                                    start_analysis[i].Abbreviation = d].GridPosition
             Gained(d, c) == <<Grid(d) - Lap1Pos(d), 1>>
         IN  IndexedFrame({"PositionsGained"},
                          [d \in Range(Column(start_analysis, "Abbreviation")) |->
                              [c \in {"PositionsGained"} |-> Gained(d, c)]])

\* ------------------------------------------------------------------------
\* get_stint_performance
\* ------------------------------------------------------------------------
\* a lap time is <<seconds>>, or <<>> for NaT
HasTime(r) == r.LapTime # <<>>
Secs(r) == r.LapTime[1]

\* laps_stint.pick_wo_box().pick_track_status('1')
CleanLaps(laps_stint) ==
    LET Clean(r) == ~r.PitIn /\ ~r.PitOut /\ r.TrackStatus = "1"
    IN  SelectSeq(laps_stint, Clean)

TimedLaps(rows) == SelectSeq(rows, HasTime)
SumSecs(rows) == SumSeq([i \in 1..Len(rows) |-> Secs(rows[i])])

\* LapTimeSeconds < LapTimeSeconds.mean() + 5, the mean taken over the laps
\* that have a time; a NaT lap compares false and is dropped
BelowThreshold(r, rows) ==
    LET timed == TimedLaps(rows)
        n == Len(timed)
    IN  /\ HasTime(r)
        /\ n > 0
        /\ Secs(r) * n < SumSecs(timed) + OutlierMargin * n

\* FinalLaps with <= in place of <
FinalLapsAtOrBelow(clean_laps) ==
    LET timed == TimedLaps(clean_laps)
        n == Len(timed)
        Keep(r) == /\ HasTime(r)
                   /\ n > 0
                   /\ Secs(r) * n <= SumSecs(timed) + OutlierMargin * n
    IN  SelectSeq(clean_laps, Keep)

FinalLaps(clean_laps) ==
    LET Keep(r) == BelowThreshold(r, clean_laps) IN SelectSeq(clean_laps, Keep)

\* final_laps['LapTimeSeconds'].std(): the sample variance n/d stands for
\* its square root
Consistency(final_laps) ==
    LET n == Len(final_laps)
        t == [i \in 1..n |-> Secs(final_laps[i])]
        sq == [i \in 1..n |-> t[i] * t[i]]
    IN  Rat(n * SumSeq(sq) - SumSeq(t) * SumSeq(t), n * (n - 1))

\* final_laps['LapNumber'] - final_laps['Stint'].min() + 1
StintLap(r, final_laps) ==
    r.LapNumber - MinOfSet(Range(Column(final_laps, "Stint"))) + 1

SlopeDen(final_laps) ==
    LET n == Len(final_laps)
        x == [i \in 1..n |-> StintLap(final_laps[i], final_laps)]
        xx == [i \in 1..n |-> x[i] * x[i]]
    IN  n * SumSeq(xx) - SumSeq(x) * SumSeq(x)

\* stats.linregress(StintLap, LapTimeSeconds).slope
Degradation(final_laps) ==
    LET n == Len(final_laps)
        x == [i \in 1..n |-> StintLap(final_laps[i], final_laps)]
        y == [i \in 1..n |-> Secs(final_laps[i])]
        xy == [i \in 1..n |-> x[i] * y[i]]
    IN  Rat(n * SumSeq(xy) - SumSeq(x) * SumSeq(y), SlopeDen(final_laps))

\* the steps of the try block at which a library call can raise
FaultSteps == {"none", "pick", "seconds", "std", "linregress"}

\* StintStep without the second length check
StintStepNoRecheck(acc, laps_stint, fault) ==
    LET clean_laps == CleanLaps(laps_stint)
        final_laps == FinalLaps(clean_laps)
        Same(r) == [degs |-> acc.degs, cons |-> acc.cons, raised |-> r]
    IN  IF fault = "pick" THEN Same(TRUE)
        ELSE IF Len(clean_laps) < MinLaps THEN Same(FALSE)
        ELSE IF fault = "seconds" THEN Same(TRUE)
        ELSE IF fault = "std" THEN Same(TRUE)
        ELSE LET cons == Append(acc.cons, <<Len(final_laps), 1>>)
             IN  IF fault = "linregress"
                 THEN [degs |-> acc.degs, cons |-> cons, raised |-> TRUE]
                 ELSE [degs |-> Append(acc.degs, <<Len(final_laps), 1>>),
                       cons |-> cons, raised |-> FALSE]

\* One pass of the body of `for stint in stints` over the two lists of the
\* driver; fault names the call that raises in this pass, if any, and
\* `raised` tells whether the pass ended in the except clause.
StintStep(acc, laps_stint, fault) ==
    LET clean_laps == CleanLaps(laps_stint)
        final_laps == FinalLaps(clean_laps)
        Same(r) == [degs |-> acc.degs, cons |-> acc.cons, raised |-> r]
    IN  IF fault = "pick" THEN Same(TRUE)
        ELSE IF Len(clean_laps) < MinLaps THEN Same(FALSE)
        ELSE IF fault = "seconds" THEN Same(TRUE)
        ELSE IF Len(final_laps) < MinLaps THEN Same(FALSE)
        ELSE IF fault = "std" THEN Same(TRUE)
        ELSE LET cons == Append(acc.cons, Consistency(final_laps))
             IN  IF fault = "linregress" \/ SlopeDen(final_laps) = 0
                 THEN [degs |-> acc.degs, cons |-> cons, raised |-> TRUE]
                 ELSE [degs |-> Append(acc.degs, Degradation(final_laps)),
                       cons |-> cons, raised |-> FALSE]

NoMetrics == [degs |-> <<>>, cons |-> <<>>, raised |-> FALSE]

\* np.mean(driver_degs)
MeanDeg(degs) ==
    LET s == RatSum(degs) IN Rat(s[1], s[2] * Len(degs))

RatLeq(p, q) == p[1] * q[2] <= q[1] * p[2]

RECURSIVE Insert(_, _)
Insert(x, sorted) ==
    IF sorted = <<>> THEN <<x>>
    ELSE IF RatLeq(x, Head(sorted)) THEN <<x>> \o sorted
    ELSE <<Head(sorted)>> \o Insert(x, Tail(sorted))

RECURSIVE Sorted(_)
Sorted(s) == IF s = <<>> THEN <<>> ELSE Insert(Head(s), Sorted(Tail(s)))

\* np.mean(driver_cons): the mean of the square roots of the variances,
\* kept as the variances in ascending order
MeanCons(cons) == <<Sorted(cons)>>

\* the record appended to driver_stints, if any
DriverRecords(driver, acc) ==
    IF acc.degs # <<>>
    THEN <<[Driver |-> driver,
            AvgDegradation |-> MeanDeg(acc.degs),
            AvgConsistency |-> MeanCons(acc.cons)]>>
    ELSE <<>>

\* pd.DataFrame.from_records(driver_stints).set_index('Driver')
StintFrame(driver_stints) ==
    IF driver_stints = <<>> THEN EmptyFrame
    ELSE LET Rec(d) == driver_stints[CHOOSE i \in 1..Len(driver_stints) :
                                         driver_stints[i].Driver = d]
             Cell(d, c) == Rec(d)[c]
         IN  IndexedFrame({"AvgDegradation", "AvgConsistency"},
                          [d \in Range(Column(driver_stints, "Driver")) |->
                              [c \in {"AvgDegradation", "AvgConsistency"} |->
                                  Cell(d, c)]])

StintsOf(driver_laps) == Unique(Column(driver_laps, "Stint"))

RECURSIVE StintLoop(_, _, _)
StintLoop(driver_laps, stints, acc) ==
    IF stints = <<>> THEN acc
    ELSE LET IsStint(r) == r.Stint = Head(stints)
         IN  StintLoop(driver_laps, Tail(stints),
                       StintStep(acc, SelectSeq(driver_laps, IsStint), "none"))

RECURSIVE DriverLoop(_, _)
DriverLoop(laps, drivers) ==
    IF drivers = <<>> THEN <<>>
    ELSE LET driver_laps == pick_drivers(laps, Head(drivers))
         IN  DriverRecords(Head(drivers),
                           StintLoop(driver_laps, StintsOf(driver_laps), NoMetrics))
             \o DriverLoop(laps, Tail(drivers))

\* the whole function when no library call raises; laps['Driver'] and
\* driver_laps['Stint'] are read outside the try, so a missing column raises
\* to the caller
StintPerformanceRaises(laps) == ~({"Driver", "Stint"} \subseteq laps.cols)

get_stint_performance(laps) == StintFrame(DriverLoop(laps, DriversOf(laps)))

\* ------------------------------------------------------------------------
\* The per-race join of main()
\* ------------------------------------------------------------------------
ResultColumns == {"TeamName", "Position", "Points"}
EventColumns == {"RaceName", "RaceDate", "Season"}
MetricColumns == {"TopSpeedST", "PositionsGained", "AvgDegradation", "AvgConsistency"}

\* the cell a left join gives row `driver` for column c of frame f
JoinedCell(f, driver, c) ==
    IF driver \in FrameKeys(f) THEN f.map[driver][c] ELSE NaN

\* results.set_index('Driver').join([top_speeds, start_perf, stint_perf]):
\* every row of the left frame, the columns of all four frames
JoinFrames(left_rows, frames) ==
    LET cols == ResultColumns \cup UNION {frames[i].cols : i \in 1..Len(frames)}
        FrameOf(c) == frames[CHOOSE i \in 1..Len(frames) : c \in frames[i].cols]
        Row(r) == [c \in {"Driver"} \cup cols |->
                      IF c = "Driver" THEN r.Abbreviation
                      ELSE IF c \in ResultColumns THEN r[c]
                      ELSE JoinedCell(FrameOf(c), r.Abbreviation, c)]
    IN  [cols |-> cols, rows |-> [i \in 1..Len(left_rows) |-> Row(left_rows[i])]]

\* race_df['RaceName'] = ...; race_df['RaceDate'] = ...; race_df['Season'] = year
WithEventInfo(race_df, event, year) ==
    LET cols == race_df.cols \cup EventColumns
        Row(r) == [c \in {"Driver"} \cup cols |->
                      IF c = "RaceName" THEN event.EventName
                      ELSE IF c = "RaceDate" THEN event.EventDate
                      ELSE IF c = "Season" THEN year
                      ELSE r[c]]
    IN  [cols |-> cols, rows |-> [i \in 1..Len(race_df.rows) |-> Row(race_df.rows[i])]]

\* the body of the try block after session.load(), lines 152-175
RaceFrame(session, event, year) ==
    LET top_speeds == get_top_speeds(session.laps)
        start_perf == get_start_performance(session)
        stint_perf == get_stint_performance(session.laps)
    IN  WithEventInfo(JoinFrames(session.results.rows,
                                 <<top_speeds, start_perf, stint_perf>>),
                      event, year)

\* where the try block of one race raises: the provider call named by
\* fault, get_stint_performance reading a missing column, or the selection
\* of the result columns
RaiseStep(session, fault) ==
    IF fault # "none" THEN fault
    ELSE IF StintPerformanceRaises(session.laps) THEN "get_stint_performance"
    ELSE IF ~({"Abbreviation"} \cup ResultColumns \subseteq session.results.cols)
    THEN "results"
    ELSE "none"

\* ProcessRace without the except clause: the exception leaves main()
ProcessRaceNoHandler(data, session, fault, event, year) ==
    IF RaiseStep(session, fault) # "none"
    THEN [data |-> data, outcome |-> "raised", pc |-> "crashed"]
    ELSE [data |-> Append(data, RaceFrame(session, event, year)),
          outcome |-> "ok", pc |-> "event_loop"]

\* One pass of the try/except of the event loop over all_race_data.
ProcessRace(data, session, fault, event, year) ==
    IF RaiseStep(session, fault) # "none"
    THEN [data |-> data, outcome |-> "raised", pc |-> "event_loop"]
    ELSE [data |-> Append(data, RaceFrame(session, event, year)),
          outcome |-> "ok", pc |-> "event_loop"]

\* pd.concat(all_race_data): the union of the columns, the rows in order,
\* NaN where a frame lacks a column
RECURSIVE ConcatRows(_, _)
ConcatRows(frames, cols) ==
    IF frames = <<>> THEN <<>>
    ELSE LET f == Head(frames)
             Row(r) == [c \in {"Driver"} \cup cols |->
                           IF c \in DOMAIN r THEN r[c] ELSE NaN]
         IN  [i \in 1..Len(f.rows) |-> Row(f.rows[i])] \o ConcatRows(Tail(frames), cols)

\* Concat that puts the latest frame first
RECURSIVE Reversed(_)
Reversed(q) == IF q = <<>> THEN <<>> ELSE Append(Reversed(Tail(q)), Head(q))

ConcatLatestFirst(frames) ==
    LET cols == UNION {frames[i].cols : i \in 1..Len(frames)}
    IN  [cols |-> cols, rows |-> ConcatRows(Reversed(frames), cols)]

Concat(frames) ==
    LET cols == UNION {frames[i].cols : i \in 1..Len(frames)}
    IN  [cols |-> cols, rows |-> ConcatRows(frames, cols)]

\* ------------------------------------------------------------------------
\* What the data provider can return
\* ------------------------------------------------------------------------
LapColumns == {"Driver", "Stint", "LapNumber", "LapTime", "SpeedST", "PitIn",
               "PitOut", "TrackStatus", "Position"}

Lap(driver, stint, n, time, kind) ==
    [Driver |-> driver, Stint |-> stint, LapNumber |-> n, LapTime |-> time,
     SpeedST |-> 300 + n, PitIn |-> kind = "in", PitOut |-> kind = "out",
     TrackStatus |-> IF kind = "yellow" THEN "2" ELSE "1", Position |-> n + 4]

ResultRow(driver, team, grid, position, points) ==
    [Abbreviation |-> driver, TeamName |-> team, GridPosition |-> grid,
     Position |-> position, Points |-> points]

\* VER starts P3, HAM starts from the pit lane (grid 0), BOT sets no lap
Classification ==
    <<ResultRow("VER", "Red Bull Racing", 3, 1, 25),
      ResultRow("HAM", "Mercedes", 0, 2, 18),
      ResultRow("BOT", "Alfa Romeo", 10, 3, 15)>>

ResultsFull ==
    [cols |-> {"Abbreviation", "TeamName", "GridPosition", "Position", "Points"},
     rows |-> Classification]

\* a results table without the Points column
ResultsNoPoints ==
    [cols |-> {"Abbreviation", "TeamName", "GridPosition", "Position"},
     rows |-> Classification]

\* VER runs a stint that qualifies, HAM two laps only, SAR is in the laps
\* but not classified
LapsFull ==
    [cols |-> LapColumns,
     rows |-> <<Lap("VER", 1, 1, <<90>>, "clean"), Lap("HAM", 1, 1, <<100>>, "clean"),
                Lap("SAR", 1, 1, <<105>>, "clean"), Lap("VER", 1, 2, <<100>>, "clean"),
                Lap("HAM", 1, 2, <<100>>, "out"), Lap("VER", 1, 3, <<100>>, "clean")>>]

\* a race stopped after two laps, recorded without the speed trap: no stint
\* of any driver qualifies
LapsShort ==
    [cols |-> LapColumns \ {"SpeedST"},
     rows |-> <<Lap("VER", 1, 1, <<105>>, "yellow"), Lap("HAM", 1, 1, <<105>>, "yellow"),
                Lap("VER", 1, 2, <<105>>, "clean"), Lap("HAM", 1, 2, <<>>, "clean")>>]

\* lap data that came back without its columns
LapsNoColumns == [cols |-> {}, rows |-> <<>>]

\* sessions whose race goes through, and sessions whose data makes a later
\* step of the try block raise
GoodSessions ==
    <<[results |-> ResultsFull, laps |-> LapsFull],
      [results |-> ResultsFull, laps |-> LapsShort]>>

BadSessions ==
    {[results |-> ResultsFull, laps |-> LapsNoColumns],
     [results |-> ResultsNoPoints, laps |-> LapsFull]}

\* what the provider can hold for the event at position e of season y: the
\* data of a race is fixed by the race, whether it arrives complete is not
SessionsAt(y, e) == {GoodSessions[((y + e) % Len(GoodSessions)) + 1]} \cup BadSessions

NoSession == [results |-> [cols |-> {}, rows |-> <<>>], laps |-> LapsNoColumns]

\* fastf1.get_session / session.load raising, or neither
ProviderFaults == {"none", "get_session", "load"}

EventNames == <<"Pre-Season Testing", "Bahrain Grand Prix", "Monaco Grand Prix",
                "Italian Grand Prix", "Abu Dhabi Grand Prix">>

Event(i, format) ==
    [EventName |-> EventNames[IF i <= Len(EventNames) THEN i ELSE Len(EventNames)],
     EventDate |-> i, EventFormat |-> format]

EventFormats == {"testing", "conventional"}

\* the schedules of at most MaxEvents events
Schedules ==
    UNION {{[i \in 1..n |-> Event(i, f[i])] : f \in [1..n -> EventFormats]} :
              n \in 0..MaxEvents}

\* the file a previous run left, if any
NoFile == [cols |-> {}, rows |-> <<>>, exists |-> FALSE]
OldFile ==
    [cols |-> {"Stale"},
     rows |-> <<[c \in {"Driver", "Stale"} |-> "old"]>>,
     exists |-> TRUE]

\* ------------------------------------------------------------------------
\* State
\* ------------------------------------------------------------------------
VARIABLES
    pc,             \* where the script is: startup, year_loop, event_loop, done, exited, crashed
    cacheExists,    \* os.path.exists(cache_dir)
    yi,             \* position of `year` in YEARS_TO_ANALYZE
    schedule,       \* the schedule of the current season
    ei,             \* position of `event` in schedule
    all_race_data,  \* the list of race frames
    outputFile,     \* the content of output_file on disk
    writes,         \* calls of to_csv so far
    error,          \* the exception that ended the run, if any
    prevFile,       \* history: the file as it was before the run
    fetched,        \* history: the get_event_schedule calls, in order
    attempts,       \* history: the races whose try block was entered, in order
    s_pc,           \* get_stint_performance: where the call is
    drivers,        \* laps['Driver'].unique()
    di,             \* position of `driver` in drivers
    stints,         \* driver_laps['Stint'].unique()
    si,             \* position of `stint` in stints
    driver_degs,
    driver_cons,
    driver_stints,
    planned,        \* history: the (driver, stint) pairs of the drivers started
    visited,        \* history: the (driver, stint) passes of the inner loop
    last_stint,     \* history: the last pass of the inner loop
    qualifying,     \* history: the metrics of the driver's stints that went through
    u_pc,           \* one stint pass or one extractor call on its own: where it is
    f_laps_stint,   \* the stint pass: laps_stint
    f_clean_laps,   \* the stint pass: clean_laps
    f_final_laps,   \* the stint pass: final_laps
    f_StintLap,     \* the stint pass: final_laps['StintLap']
    p_session,      \* get_start_performance: session
    p_start         \* get_start_performance: the frame returned

mainVars == <<pc, cacheExists, yi, schedule, ei, all_race_data, outputFile, writes,
              error, prevFile, fetched, attempts>>
stintVars == <<s_pc, drivers, di, stints, si, driver_degs, driver_cons,
               driver_stints, planned, visited, last_stint, qualifying>>
unitVars == <<u_pc, f_laps_stint, f_clean_laps, f_final_laps, f_StintLap,
              p_session, p_start>>
vars == <<mainVars, stintVars, unitVars>>

NoStint == [laps |-> "none", raised |-> FALSE]

StintIdle ==
    /\ s_pc = "idle"
    /\ drivers = <<>>
    /\ di = 0
    /\ stints = <<>>
    /\ si = 0
    /\ driver_degs = <<>>
    /\ driver_cons = <<>>
    /\ driver_stints = <<>>
    /\ planned = <<>>
    /\ visited = <<>>
    /\ last_stint = NoStint
    /\ qualifying = <<>>

UnitIdle ==
    /\ u_pc = "idle"
    /\ f_laps_stint = <<>>
    /\ f_clean_laps = <<>>
    /\ f_final_laps = <<>>
    /\ f_StintLap = <<>>
    /\ p_session = NoSession
    /\ p_start = EmptyFrame

\* ------------------------------------------------------------------------
\* The script: start-up check, season loop, event loop, save
\* ------------------------------------------------------------------------
Init ==
    /\ pc = "startup"
    /\ cacheExists \in BOOLEAN
    /\ yi = 1
    /\ schedule = <<>>
    /\ ei = 0
    /\ all_race_data = <<>>
    /\ outputFile \in {NoFile, OldFile}
    /\ prevFile = outputFile
    /\ writes = 0
    /\ error = "none"
    /\ fetched = <<>>
    /\ attempts = <<>>
    /\ StintIdle
    /\ UnitIdle

\* CacheCheck without the exit()
CacheCheckNoExit(exists) == "year_loop"

\* lines 14-19: without the cache directory the script exits before main()
CacheCheck(exists) == IF exists THEN "year_loop" ELSE "exited"

Startup ==
    /\ pc = "startup"
    /\ pc' = CacheCheck(cacheExists)
    /\ error' = IF pc' = "exited" THEN "SystemExit" ELSE error
    /\ UNCHANGED <<cacheExists, yi, schedule, ei, all_race_data, outputFile, writes,
                   prevFile, fetched, attempts, stintVars, unitVars>>

\* line 141 when fastf1.get_event_schedule raises: nothing in main() catches
\* it, the exception leaves main() and the script ends
ScheduleError(y) == [pc |-> "crashed", yi |-> y]

\* line 141, the provider returning a schedule
FetchSchedule ==
    /\ pc = "year_loop"
    /\ yi <= Len(YEARS_TO_ANALYZE)
    /\ \E s \in Schedules :
          /\ schedule' = s
          /\ fetched' = Append(fetched, [yi |-> yi, ok |-> TRUE])
    /\ ei' = 2
    /\ pc' = "event_loop"
    /\ UNCHANGED <<cacheExists, yi, all_race_data, outputFile, writes, error,
                   prevFile, attempts, stintVars, unitVars>>

\* line 141, the provider raising
FetchRaises ==
    /\ pc = "year_loop"
    /\ yi <= Len(YEARS_TO_ANALYZE)
    /\ fetched' = Append(fetched, [yi |-> yi, ok |-> FALSE])
    /\ pc' = ScheduleError(yi).pc
    /\ yi' = ScheduleError(yi).yi
    /\ error' = IF pc' = "crashed" THEN "get_event_schedule" ELSE error
    /\ UNCHANGED <<cacheExists, schedule, ei, all_race_data, outputFile, writes,
                   prevFile, attempts, stintVars, unitVars>>

\* schedule.iloc[1:] is exhausted: on to the next year
SeasonDone ==
    /\ pc = "event_loop"
    /\ ei > Len(schedule)
    /\ yi' = yi + 1
    /\ pc' = "year_loop"
    /\ UNCHANGED <<cacheExists, schedule, ei, all_race_data, outputFile, writes, error,
                   prevFile, fetched, attempts, stintVars, unitVars>>

\* IsTesting without the EventFormat test
IsTestingNever(event) == FALSE

\* lines 144-145
IsTesting(event) == event.EventFormat = "testing"

SkipTesting ==
    /\ pc = "event_loop"
    /\ ei <= Len(schedule)
    /\ IsTesting(schedule[ei])
    /\ ei' = ei + 1
    /\ UNCHANGED <<pc, cacheExists, yi, schedule, all_race_data, outputFile, writes,
                   error, prevFile, fetched, attempts, stintVars, unitVars>>

\* lines 149-181: the try block of one race and its handler
TryRace ==
    /\ pc = "event_loop"
    /\ ei <= Len(schedule)
    /\ ~IsTesting(schedule[ei])
    /\ \E session \in SessionsAt(yi, ei), fault \in ProviderFaults :
          LET r == ProcessRace(all_race_data, session, fault, schedule[ei],
                               YEARS_TO_ANALYZE[yi])
          IN  /\ all_race_data' = r.data
              /\ pc' = r.pc
              /\ error' = IF r.pc = "crashed" THEN "race" ELSE error
              /\ attempts' = Append(attempts,
                     [yi |-> yi, ei |-> ei, outcome |-> r.outcome,
                      session |-> IF r.outcome = "ok" THEN session ELSE NoSession])
    /\ ei' = ei + 1
    /\ UNCHANGED <<cacheExists, yi, schedule, outputFile, writes, prevFile, fetched,
                   stintVars, unitVars>>

\* lines 186-190: pd.concat raises ValueError on an empty list, before the
\* file is opened; otherwise to_csv replaces the file
SaveResult(data, file) ==
    IF data = <<>>
    THEN [pc |-> "crashed", file |-> file, wrote |-> 0]
    ELSE LET master_df == Concat(data)
         IN  [pc |-> "done",
              file |-> [cols |-> master_df.cols, rows |-> master_df.rows,
                        exists |-> TRUE],
              wrote |-> 1]

Save ==
    /\ pc = "year_loop"
    /\ yi > Len(YEARS_TO_ANALYZE)
    /\ LET r == SaveResult(all_race_data, outputFile)
       IN  /\ pc' = r.pc
           /\ outputFile' = r.file
           /\ writes' = writes + r.wrote
           /\ error' = IF r.pc = "crashed" THEN "ValueError" ELSE error
    /\ UNCHANGED <<cacheExists, yi, schedule, ei, all_race_data, prevFile, fetched,
                   attempts, stintVars, unitVars>>

Next ==
    \/ Startup
    \/ FetchSchedule
    \/ FetchRaises
    \/ SeasonDone
    \/ SkipTesting
    \/ TryRace
    \/ Save

Spec == Init /\ [][Next]_vars

\* ------------------------------------------------------------------------
\* get_stint_performance, one call, step by step
\* ------------------------------------------------------------------------
DriverIds == <<"VER", "HAM">>

\* the stint identifiers a driver's laps can carry
StintIds == <<1, 2>>

\* the laps of one stint as the provider can record them: a clean lap of 90
\* or 100 seconds or a lap under yellow anywhere, an in-lap at the end
LapKinds(i, n) ==
    {<<<<90>>, "clean">>, <<<<100>>, "clean">>, <<<<100>>, "yellow">>}
        \cup (IF i = n THEN {<<<<100>>, "in">>} ELSE {})

RECURSIVE LapKindSeqsFrom(_, _)
LapKindSeqsFrom(i, n) ==
    IF i > n THEN {<<>>}
    ELSE {<<k>> \o rest : k \in LapKinds(i, n), rest \in LapKindSeqsFrom(i + 1, n)}

LapKindSeqs(n) == LapKindSeqsFrom(1, n)

StintLaps(driver, stint) ==
    UNION {{[i \in 1..n |-> Lap(driver, stint, (stint - 1) * MaxLaps + i,
                                k[i][1], k[i][2])] :
               k \in LapKindSeqs(n)} : n \in 1..MaxLaps}

\* whether the stint has three laps before and after the outlier filter
EnoughLaps(laps_stint) ==
    /\ Len(CleanLaps(laps_stint)) >= MinLaps
    /\ Len(FinalLaps(CleanLaps(laps_stint))) >= MinLaps

\* which of the two length checks the stint fails, if any
LapCount(laps_stint) ==
    IF Len(CleanLaps(laps_stint)) < MinLaps THEN "few_clean"
    ELSE IF Len(FinalLaps(CleanLaps(laps_stint))) < MinLaps THEN "few_after_filter"
    ELSE "enough"

\* the calls the pass over laps_stint gets to, each of which can raise
ReachedSteps(laps_stint) ==
    {"none", "pick"}
        \cup (IF Len(CleanLaps(laps_stint)) >= MinLaps THEN {"seconds"} ELSE {})
        \cup (IF EnoughLaps(laps_stint) THEN {"std", "linregress"} ELSE {})

\* history: the metric of a stint whose pass went through both length checks
\* and raised nowhere, none for any other stint
StintMetric(laps_stint, fault) ==
    LET final_laps == FinalLaps(CleanLaps(laps_stint))
    IN  IF EnoughLaps(laps_stint) /\ fault = "none" /\ SlopeDen(final_laps) # 0
        THEN <<[degradation |-> Degradation(final_laps),
                consistency |-> Consistency(final_laps)]>>
        ELSE <<>>

\* OnStintError without the except clause: the exception leaves the function
OnStintErrorPropagates == "raised"

\* what happens to an exception caught in the inner loop: `continue`
OnStintError == "stint_loop"

StintInit ==
    /\ pc = "analysis"
    /\ cacheExists = TRUE
    /\ yi = 1
    /\ schedule = <<>>
    /\ ei = 0
    /\ all_race_data = <<>>
    /\ outputFile = NoFile
    /\ prevFile = NoFile
    /\ writes = 0
    /\ error = "none"
    /\ fetched = <<>>
    /\ attempts = <<>>
    /\ s_pc = "driver_loop"
    /\ drivers \in {SubSeq(DriverIds, 1, n) : n \in 0..Len(DriverIds)}
    /\ di = 1
    /\ stints = <<>>
    /\ si = 0
    /\ driver_degs = <<>>
    /\ driver_cons = <<>>
    /\ driver_stints = <<>>
    /\ planned = <<>>
    /\ visited = <<>>
    /\ last_stint = NoStint
    /\ qualifying = <<>>
    /\ UnitIdle

\* lines 77-82: the next driver, its stints, two empty lists
StartDriver ==
    /\ s_pc = "driver_loop"
    /\ di <= Len(drivers)
    /\ \E n \in 1..Len(StintIds) : stints' = SubSeq(StintIds, 1, n)
    /\ planned' = planned \o [i \in 1..Len(stints') |-> <<drivers[di], stints'[i]>>]
    /\ si' = 1
    /\ driver_degs' = <<>>
    /\ driver_cons' = <<>>
    /\ qualifying' = <<>>
    /\ s_pc' = "stint_loop"
    /\ UNCHANGED <<mainVars, unitVars, drivers, di, driver_stints, visited, last_stint>>

\* lines 84-111: one pass of the inner loop
ProcessStint ==
    /\ s_pc = "stint_loop"
    /\ si <= Len(stints)
    /\ \E laps_stint \in StintLaps(drivers[di], stints[si]) :
       \E fault \in ReachedSteps(laps_stint) :
          LET acc == StintStep([degs |-> driver_degs, cons |-> driver_cons],
                               laps_stint, fault)
          IN  /\ driver_degs' = acc.degs
              /\ driver_cons' = acc.cons
              /\ s_pc' = IF acc.raised THEN OnStintError ELSE "stint_loop"
              /\ last_stint' =
                     [laps |-> LapCount(laps_stint), raised |-> acc.raised]
              /\ qualifying' = qualifying \o StintMetric(laps_stint, fault)
    /\ si' = si + 1
    /\ visited' = Append(visited, <<drivers[di], stints[si]>>)
    /\ UNCHANGED <<mainVars, unitVars, drivers, di, stints, driver_stints, planned>>

\* lines 113-119: the reduction of the driver's lists
EndDriver ==
    /\ s_pc = "stint_loop"
    /\ si > Len(stints)
    /\ driver_stints' = driver_stints \o
           DriverRecords(drivers[di], [degs |-> driver_degs, cons |-> driver_cons])
    /\ di' = di + 1
    /\ s_pc' = "driver_loop"
    /\ UNCHANGED <<mainVars, unitVars, drivers, stints, si, driver_degs, driver_cons,
                   planned, visited, last_stint, qualifying>>

\* lines 121-124
Return ==
    /\ s_pc = "driver_loop"
    /\ di > Len(drivers)
    /\ s_pc' = "returned"
    /\ UNCHANGED <<mainVars, unitVars, drivers, di, stints, si, driver_degs, driver_cons,
                   driver_stints, planned, visited, last_stint, qualifying>>

StintNext ==
    \/ StartDriver
    \/ ProcessStint
    \/ EndDriver
    \/ Return

StintSpec == StintInit /\ [][StintNext]_vars

\* ------------------------------------------------------------------------
\* get_start_performance, one call
\* ------------------------------------------------------------------------
MainIdle ==
    /\ pc = "analysis"
    /\ cacheExists = TRUE
    /\ yi = 1
    /\ schedule = <<>>
    /\ ei = 0
    /\ all_race_data = <<>>
    /\ outputFile = NoFile
    /\ prevFile = NoFile
    /\ writes = 0
    /\ error = "none"
    /\ fetched = <<>>
    /\ attempts = <<>>

StartDrivers == <<"VER", "HAM", "BOT">>
StartTeams == <<"Red Bull Racing", "Mercedes", "Alfa Romeo">>

\* a grid position: the pit lane (0), P3, P10
GridPositions == {0, 3, 10}

\* the position at the end of lap 1 (P1, P5), or <<>> for no lap-1 record
Lap1Positions == {<<>>, <<1>>, <<5>>}

\* the laps of a driver: lap 1 and lap 2, or nothing when the car did not
\* complete lap 1
StartLaps(driver, position) ==
    IF position = <<>> THEN <<>>
    ELSE <<[Lap(driver, 1, 1, <<100>>, "clean") EXCEPT !.Position = position[1]],
           [Lap(driver, 1, 2, <<100>>, "clean") EXCEPT !.Position = position[1] + 1]>>

StartSession(grid, lap1) ==
    [results |->
         [cols |-> {"Abbreviation", "TeamName", "GridPosition", "Position", "Points"},
          rows |-> [i \in 1..Len(StartDrivers) |->
                       ResultRow(StartDrivers[i], StartTeams[i], grid[i], i, 0)]],
     laps |->
         [cols |-> LapColumns,
          rows |-> Flatten([i \in 1..Len(StartDrivers) |->
                               StartLaps(StartDrivers[i], lap1[i])])]]

\* the sessions the call can get: every grid and every first lap of the
\* three cars, and the sessions whose tables came back without columns
StartSessions ==
    {StartSession(grid, lap1) :
        grid \in [1..Len(StartDrivers) -> GridPositions],
        lap1 \in [1..Len(StartDrivers) -> Lap1Positions]}
    \cup {NoSession, [results |-> ResultsFull, laps |-> LapsNoColumns]}

StartInit ==
    /\ MainIdle
    /\ StintIdle
    /\ u_pc = "start_performance"
    /\ p_session \in StartSessions
    /\ p_start = EmptyFrame
    /\ f_laps_stint = <<>>
    /\ f_clean_laps = <<>>
    /\ f_final_laps = <<>>
    /\ f_StintLap = <<>>

\* lines 36-67
StartCall ==
    /\ u_pc = "start_performance"
    /\ p_start' = get_start_performance(p_session)
    /\ u_pc' = "start_returned"
    /\ UNCHANGED <<mainVars, stintVars, p_session, f_laps_stint, f_clean_laps,
                   f_final_laps, f_StintLap>>

StartNext == StartCall

StartSpec == StartInit /\ [][StartNext]_vars

\* ------------------------------------------------------------------------
\* get_stint_performance, the pass over one stint up to the regression input
\* ------------------------------------------------------------------------
\* a lap as the provider can record it: a green lap of 90 to 110 seconds or
\* without a time, a lap under yellow, an in-lap at the end of the stint
FilterLapKinds(i, n) ==
    {<<<<t>>, "clean">> : t \in {90, 95, 100, 105, 110}}
        \cup {<<<<>>, "clean">>, <<<<100>>, "yellow">>}
        \cup (IF i = n THEN {<<<<100>>, "in">>} ELSE {})

RECURSIVE FilterLapKindSeqsFrom(_, _)
FilterLapKindSeqsFrom(i, n) ==
    IF i > n THEN {<<>>}
    ELSE {<<k>> \o rest : k \in FilterLapKinds(i, n),
                          rest \in FilterLapKindSeqsFrom(i + 1, n)}

\* the stints the pass can get: stint 1 starts at lap 1, stint 2 after it
FilterStints ==
    UNION {{[i \in 1..n |-> Lap("VER", stint, (stint - 1) * MaxLaps + i,
                                k[i][1], k[i][2])] :
               k \in FilterLapKindSeqsFrom(1, n)} :
           n \in 1..MaxLaps, stint \in Range(StintIds)}

FilterInit ==
    /\ MainIdle
    /\ StintIdle
    /\ u_pc = "laps_stint"
    /\ f_laps_stint \in FilterStints
    /\ f_clean_laps = <<>>
    /\ f_final_laps = <<>>
    /\ f_StintLap = <<>>
    /\ p_session = NoSession
    /\ p_start = EmptyFrame

\* line 89
PickClean ==
    /\ u_pc = "laps_stint"
    /\ f_clean_laps' = CleanLaps(f_laps_stint)
    /\ u_pc' = "clean_laps"
    /\ UNCHANGED <<mainVars, stintVars, f_laps_stint, f_final_laps, f_StintLap,
                   p_session, p_start>>

\* lines 91-92 and 97-98: `continue`
SkipShort ==
    /\ \/ u_pc = "clean_laps" /\ Len(f_clean_laps) < MinLaps
       \/ u_pc = "final_laps" /\ Len(f_final_laps) < MinLaps
    /\ u_pc' = "skipped"
    /\ UNCHANGED <<mainVars, stintVars, f_laps_stint, f_clean_laps, f_final_laps,
                   f_StintLap, p_session, p_start>>

\* lines 94-95
FilterOutliers ==
    /\ u_pc = "clean_laps"
    /\ Len(f_clean_laps) >= MinLaps
    /\ f_final_laps' = FinalLaps(f_clean_laps)
    /\ u_pc' = "final_laps"
    /\ UNCHANGED <<mainVars, stintVars, f_laps_stint, f_clean_laps, f_StintLap,
                   p_session, p_start>>

\* line 105
IndexLaps ==
    /\ u_pc = "final_laps"
    /\ Len(f_final_laps) >= MinLaps
    /\ f_StintLap' = [i \in 1..Len(f_final_laps) |->
                         StintLap(f_final_laps[i], f_final_laps)]
    /\ u_pc' = "StintLap"
    /\ UNCHANGED <<mainVars, stintVars, f_laps_stint, f_clean_laps, f_final_laps,
                   p_session, p_start>>

FilterNext ==
    \/ PickClean
    \/ SkipShort
    \/ FilterOutliers
    \/ IndexLaps

FilterSpec == FilterInit /\ [][FilterNext]_vars

\* ------------------------------------------------------------------------
\* Properties of the script
\* ------------------------------------------------------------------------
Last(q) == q[Len(q)]

RECURSIVE OkAttempts(_)
OkAttempts(as) ==
    IF as = <<>> THEN <<>>
    ELSE (IF Head(as).outcome = "ok" THEN <<Head(as)>> ELSE <<>>) \o OkAttempts(Tail(as))

\* C1: a race whose try block raises adds nothing to all_race_data, leaves
\* the frames of the earlier races as they were, and the event loop goes on
\* with the next entry of the schedule.
C1_RaceFailureIsolated ==
    [][(/\ Len(attempts') = Len(attempts) + 1
        /\ Last(attempts').outcome = "raised")
       => (/\ all_race_data' = all_race_data
           /\ pc' = "event_loop"
           /\ ei' = ei + 1
           /\ yi' = yi
           /\ schedule' = schedule)]_vars

\* a race that raised between two races that went through
C1_Witness ==
    \E j \in 2..(Len(attempts) - 1) :
        /\ attempts[j - 1].outcome = "ok"
        /\ attempts[j].outcome = "raised"
        /\ attempts[j + 1].outcome = "ok"
        /\ Len(all_race_data) = 2

\* C2: a season whose schedule fetch raised is skipped and the season loop
\* goes on with the next year of the list.
C2_SeasonFailureIsolated ==
    (fetched # <<>> /\ ~Last(fetched).ok)
        => (yi = Last(fetched).yi + 1 /\ error # "get_event_schedule")

\* C3: a run that passed the cache check, fetched every schedule and tried
\* its races ends with the file written exactly once, holding the frames of
\* this run, whichever races raised.
C3_WrittenOnce ==
    (/\ cacheExists
     /\ pc \in {"done", "crashed"}
     /\ attempts # <<>>
     /\ \A k \in 1..Len(fetched) : fetched[k].ok)
        => (/\ writes = 1
            /\ outputFile.exists
            /\ outputFile.rows = ConcatRows(all_race_data, outputFile.cols))

\* the metric columns each extractor is to fill
ExtractorColumns ==
    <<{"TopSpeedST"}, {"PositionsGained"}, {"AvgDegradation", "AvgConsistency"}>>

ExtractorFrames(session) ==
    <<get_top_speeds(session.laps), get_start_performance(session),
      get_stint_performance(session.laps)>>

\* C4: the frame of a processed race has one row per driver of the results,
\* in which each metric is the extractor's value for the driver, or null when
\* the extractor has no entry for the driver.
C4_LeftJoinNullFill ==
    LET oks == OkAttempts(attempts)
    IN  \A k \in 1..Len(oks) :
            LET race_df == all_race_data[k]
                results == oks[k].session.results.rows
                frames == ExtractorFrames(oks[k].session)
            IN  /\ Column(race_df.rows, "Driver") = Column(results, "Abbreviation")
                /\ \A i \in 1..Len(race_df.rows), e \in 1..Len(frames) :
                       \A m \in ExtractorColumns[e] :
                           /\ m \in DOMAIN race_df.rows[i]
                           /\ race_df.rows[i][m] =
                                  IF race_df.rows[i]["Driver"] \in FrameKeys(frames[e])
                                  THEN frames[e].map[race_df.rows[i]["Driver"]][m]
                                  ELSE NaN

\* C5: every race frame carries the four metric columns and the file has
\* exactly the eleven columns (Driver is the index).
C5_FixedColumns ==
    /\ \A k \in 1..Len(all_race_data) : MetricColumns \subseteq all_race_data[k].cols
    /\ writes > 0 => outputFile.cols = ResultColumns \cup MetricColumns \cup EventColumns

\* the (season, race, driver) keys a processed race is to contribute
ExpectedKeys(a) ==
    LET ds == Column(a.session.results.rows, "Abbreviation")
    IN  [i \in 1..Len(ds) |-> <<YEARS_TO_ANALYZE[a.yi], EventNames[a.ei], ds[i]>>]

RowKeys(rows) ==
    [i \in 1..Len(rows) |-> <<rows[i]["Season"], rows[i]["RaceName"], rows[i]["Driver"]>>]

Before(a, b) == a.yi < b.yi \/ (a.yi = b.yi /\ a.ei < b.ei)

\* C6: the saved table has as many rows as the frames of the processed races
\* together, in processing order: by season of the list, then by schedule
\* position, the rows of a race together.
C6_RowsInProcessingOrder ==
    LET oks == OkAttempts(attempts)
    IN  /\ Len(all_race_data) = Len(oks)
        /\ \A j, k \in 1..Len(oks) : j < k => Before(oks[j], oks[k])
        /\ pc = "done" =>
              /\ Len(outputFile.rows) =
                     SumSeq([k \in 1..Len(all_race_data) |-> Len(all_race_data[k].rows)])
              /\ RowKeys(outputFile.rows) =
                     Flatten([k \in 1..Len(oks) |-> ExpectedKeys(oks[k])])

\* a saved table with two races of one season and a race of the other
C6_Witness ==
    /\ pc = "done"
    /\ Len(all_race_data) >= 3
    /\ \E j, k \in 1..Len(attempts) :
          attempts[j].outcome = "ok" /\ attempts[k].outcome = "ok"
          /\ attempts[j].yi # attempts[k].yi

\* the schedule positions tried so far in season y, in the order tried
RECURSIVE TriedIn(_, _)
TriedIn(as, y) ==
    IF as = <<>> THEN <<>>
    ELSE (IF Head(as).yi = y THEN <<Head(as).ei>> ELSE <<>>) \o TriedIn(Tail(as), y)

\* the positions from..(upto - 1) of sched that hold a race, in order
RECURSIVE RacePositions(_, _, _)
RacePositions(sched, from, upto) ==
    IF from >= upto THEN <<>>
    ELSE (IF sched[from].EventFormat # "testing" THEN <<from>> ELSE <<>>)
         \o RacePositions(sched, from + 1, upto)

\* C7: in a season whose schedule was obtained, the races tried are exactly
\* the entries behind the first one whose format is not testing, each once,
\* in schedule order.
C7_EachRaceTriedOnce ==
    (fetched # <<>> /\ Last(fetched).ok) =>
        LET upto == IF pc = "event_loop" THEN ei ELSE Len(schedule) + 1
        IN  TriedIn(attempts, Last(fetched).yi) = RacePositions(schedule, 2, upto)

\* a finished season of three entries: a race in front that is never tried,
\* a testing entry that is skipped, a race that is tried
C7_Witness ==
    /\ pc = "year_loop"
    /\ fetched # <<>> /\ Last(fetched).ok
    /\ Len(schedule) = 3
    /\ schedule[1].EventFormat # "testing"
    /\ schedule[2].EventFormat = "testing"
    /\ TriedIn(attempts, Last(fetched).yi) = <<3>>

\* C8: without the cache directory the run ends at start-up: no schedule is
\* fetched, no session is loaded and the file is not written.
C8_NoCacheNoRun ==
    ~cacheExists =>
        /\ pc \in {"startup", "exited"}
        /\ fetched = <<>>
        /\ attempts = <<>>
        /\ writes = 0
        /\ outputFile = prevFile

C8_Witness == pc = "exited" /\ ~cacheExists /\ error = "SystemExit"

\* ------------------------------------------------------------------------
\* Properties of get_stint_performance
\* ------------------------------------------------------------------------
StintPass == s_pc = "stint_loop" /\ si' = si + 1

\* C9: a pass over a stint with fewer than three clean laps, or fewer than
\* three laps left by the outlier filter, adds no degradation value and no
\* consistency value to the driver's lists.
C9_ShortStintAddsNothing ==
    [][(StintPass /\ last_stint'.laps \in {"few_clean", "few_after_filter"})
       => (driver_degs' = driver_degs /\ driver_cons' = driver_cons)]_vars

\* a stint cut below three laps by the outlier filter, passed over while
\* the driver's lists hold the values of an earlier stint
C9_Witness ==
    /\ last_stint.laps = "few_after_filter"
    /\ ~last_stint.raised
    /\ Len(driver_degs) = 1
    /\ Len(driver_cons) = 1
    /\ si = 3

\* the passes the inner loop owes so far: all stints of the earlier drivers
\* and the stints of the current driver in front of position si
PassesDue ==
    IF s_pc = "stint_loop"
    THEN SubSeq(planned, 1, Len(planned) - (Len(stints) - (si - 1)))
    ELSE planned

QualifyingDegs == [i \in 1..Len(qualifying) |-> qualifying[i].degradation]
QualifyingCons == [i \in 1..Len(qualifying) |-> qualifying[i].consistency]

\* the entries of a driver in the list the function builds its frame from
EntriesOf(driver) ==
    LET IsDriver(r) == r.Driver = driver IN SelectSeq(driver_stints, IsDriver)

C16_ListsFromSameStints ==
    (s_pc = "stint_loop" /\ si > Len(stints)) =>
        /\ Len(driver_cons) = Len(driver_degs)
        /\ driver_degs = QualifyingDegs
        /\ driver_cons = QualifyingCons

\* ------------------------------------------------------------------------
\* Properties of get_start_performance
\* ------------------------------------------------------------------------
\* the grid positions the results give a driver and the positions its lap-1
\* records give
GridOf(driver) ==
    {r.GridPosition : r \in {g \in Range(p_session.results.rows) :
                                 g.Abbreviation = driver}}
Lap1Of(driver) ==
    {r.Position : r \in {l \in Range(p_session.laps.rows) :
                             l.Driver = driver /\ l.LapNumber = 1}}

SessionDrivers ==
    {g.Abbreviation : g \in Range(p_session.results.rows)}
        \cup {l.Driver : l \in Range(p_session.laps.rows)}

\* C12: the frame returned has an entry for exactly the drivers with a
\* positive grid position and a lap-1 position, and the entry is the grid
\* position minus the lap-1 position; a driver with a non-positive grid
\* position or without a lap-1 record has none.
C12_PositionsGained ==
    u_pc = "start_returned" =>
        \A d \in SessionDrivers :
            IF (\E g \in GridOf(d) : g > 0) /\ Lap1Of(d) # {}
            THEN /\ d \in FrameKeys(p_start)
                 /\ \E g \in GridOf(d), l \in Lap1Of(d) :
                        p_start.map[d]["PositionsGained"] = <<g - l, 1>>
            ELSE d \notin FrameKeys(p_start)

\* P3 to P5 gives -2, P10 to P1 gives +9, the car from the pit lane has no
\* entry
C12_Witness ==
    /\ u_pc = "start_returned"
    /\ GridOf("VER") = {3} /\ Lap1Of("VER") = {5}
    /\ GridOf("HAM") = {10} /\ Lap1Of("HAM") = {1}
    /\ GridOf("BOT") = {0} /\ Lap1Of("BOT") = {5}
    /\ p_start.map["VER"]["PositionsGained"] = <<-2, 1>>
    /\ p_start.map["HAM"]["PositionsGained"] = <<9, 1>>
    /\ FrameKeys(p_start) = {"VER", "HAM"}

UnderFirstThreshold(rows) ==
    LET Under(r) == BelowThreshold(r, f_clean_laps) IN SelectSeq(rows, Under)

ExceedsThreshold(r, rows) ==
    LET timed == TimedLaps(rows)
        n == Len(timed)
    IN  HasTime(r) /\ n > 0 /\ Secs(r) * n > SumSecs(timed) + OutlierMargin * n

\* C14: the laps used for the statistics are the non-pit, green-status laps
\* of the stint without the laps whose time exceeds their mean plus five
\* seconds; a timed lap at or below that threshold is kept.
C14_OnlyLapsAboveThresholdRemoved ==
    u_pc = "final_laps" =>
        /\ f_clean_laps = SelectSeq(f_laps_stint,
               LAMBDA r : ~r.PitIn /\ ~r.PitOut /\ r.TrackStatus = "1")
        /\ TimedLaps(f_final_laps) = f_final_laps
        /\ f_final_laps = SelectSeq(TimedLaps(f_clean_laps),
               LAMBDA r : ~ExceedsThreshold(r, f_clean_laps))

\* the number of the first lap of the stint
FirstLapNumber == MinOfSet(Range(Column(f_laps_stint, "LapNumber")))

\* C15: the in-stint index of a lap is its lap number minus the number of
\* the first lap of the stint plus 1.
C15_IndexFromFirstLap ==
    u_pc = "StintLap" =>
        /\ Len(f_StintLap) = Len(f_final_laps)
        /\ \A i \in 1..Len(f_StintLap) :
               f_StintLap[i] = f_final_laps[i].LapNumber - FirstLapNumber + 1


============================================================================
